---- MODULE Spec2Model ----
(***************************************************************************)
(* A model of libtetris' gameplay core (src/libtetris/src/gameplay.rs):    *)
(* Game::update with its helpers lock and deal_garbage, and Battle::new /  *)
(* Battle::update.  The playfield, the pieces and the random generator are *)
(* collaborators whose code lives outside gameplay.rs; they are modelled   *)
(* here on a small playfield with two piece kinds, following the contracts *)
(* gameplay.rs relies on.                                                  *)
(***************************************************************************)
EXTENDS Integers, Sequences, FiniteSets, TLC

(***************************************************************************)
(* Bounds of the model.                                                    *)
(***************************************************************************)
\* Columns of the modelled playfield.
BoardWidth == 4
\* Rows of the visible playfield; pieces spawn in the row just above it.
VisibleRows == 2
\* The random generator's state space is 0 .. RngModulus-1.
RngModulus == 16
\* Seeds a game may be constructed with are 0 .. NumSeeds-1.
NumSeeds == 2
\* Updates in a row with left held are counted up to HeldCap.
HeldCap == 17
\* The largest attack and the largest garbage queue a game is taken up with.
MaxAttack == 5
MaxQueue == 11
\* The number of ticks a battle between two players is followed for.
MaxBattleTicks == 4
\* The largest margin_time a battle is configured with.
MaxMargin == 3
\* The move counter of a falling piece is kept up to MoveCountCap where the
\* play would otherwise count for ever.
MoveCountCap == 17

(***************************************************************************)
(* Constants of the program.                                               *)
(***************************************************************************)
\* lock_delay: 30 (FallingState construction)
LockDelay == 30
\* if falling.rotation_move_count >= 15
MoveLimit == 15
\* falling.gravity -= 100
GravityUnit == 100
\* rng.gen_range(0, 10)
GarbageColumns == 10
\* (self.time - margin_time) % 1800 == 0
RampPeriod == 1800

Min(a, b) == IF a <= b THEN a ELSE b

(***************************************************************************)
(* Option<T> is a sequence of length at most one.                          *)
(***************************************************************************)
None == <<>>
Some(v) == <<v>>
IsSome(o) == Len(o) = 1
Unwrap(o) == o[1]

(***************************************************************************)
(* Controller: seven button states.                                        *)
(***************************************************************************)
Controller ==
  [left : BOOLEAN, right : BOOLEAN, rotate_right : BOOLEAN, rotate_left : BOOLEAN,
   soft_drop : BOOLEAN, hard_drop : BOOLEAN, hold : BOOLEAN]

\* Default::default() of Controller: every button released.
NoInput ==
  [left |-> FALSE, right |-> FALSE, rotate_right |-> FALSE, rotate_left |-> FALSE,
   soft_drop |-> FALSE, hard_drop |-> FALSE, hold |-> FALSE]

(***************************************************************************)
(* The random generator (rand_pcg's Pcg64Mcg in the program): a small      *)
(* linear congruential generator.  Every draw advances the state once.     *)
(***************************************************************************)
RngStep(s) == (5 * s + 3) % RngModulus

\* rng.gen_range(lo, hi): a value in lo .. hi-1 and the advanced generator.
GenRange(s, lo, hi) ==
  [value |-> lo + (RngStep(s) % (hi - lo)), rng |-> RngStep(s)]

\* rng.gen_bool(1.0/3.0)
GenBoolThird(s) ==
  [value |-> (RngStep(s) % 3 = 0), rng |-> RngStep(s)]

(***************************************************************************)
(* Pieces and the playfield (crate::Board, crate::FallingPiece).           *)
(* Two kinds: "M", one cell, and "D", two cells, lying (rot 0) or standing *)
(* (rot 1).  Rows are numbered from 0 at the floor; the playfield has      *)
(* VisibleRows visible rows and two rows above them.                       *)
(***************************************************************************)
Kinds == <<"D", "M">>
TotalRows == VisibleRows + 2
SpawnX == (BoardWidth \div 2) - 1
SpawnY == VisibleRows
Columns == 0 .. (BoardWidth - 1)
EmptyRow == {}

EmptyBoard ==
  [cells |-> [r \in 1 .. TotalRows |-> EmptyRow], next |-> <<>>, hold |-> None]

NoPiece == [kind |-> "-", rot |-> 0, x |-> 0, y |-> 0, tspin |-> "None"]

\* FallingPiece::cells
PieceCells(p) ==
  IF p.kind = "D"
    THEN IF p.rot = 0 THEN {<<p.x, p.y>>, <<p.x + 1, p.y>>}
                      ELSE {<<p.x, p.y>>, <<p.x, p.y + 1>>}
    ELSE {<<p.x, p.y>>}

\* spawned.cells().into_iter().map(|(_,y)| y).min().unwrap()
LowY(p) == p.y

Occupied(board, x, y) ==
  \/ x < 0 \/ x >= BoardWidth \/ y < 0 \/ y >= TotalRows
  \/ x \in board.cells[y + 1]

Obstructed(board, p) == \E c \in PieceCells(p) : Occupied(board, c[1], c[2])

\* FallingPiece::shift: moves the piece if the target is free; reports success.
Shift(board, p, dx, dy) ==
  LET q == [p EXCEPT !.x = p.x + dx, !.y = p.y + dy, !.tspin = "None"]
  IN  IF Obstructed(board, q) THEN [ok |-> FALSE, piece |-> p]
                              ELSE [ok |-> TRUE, piece |-> q]

\* FallingPiece::cw and ::ccw.  The turned piece is tried in place, then kicked
\* one column to the left, then one row up; neither kind can spin.
Kicks == <<<<0, 0>>, <<-1, 0>>, <<0, 1>>>>

RECURSIVE TryKicks(_, _, _)
TryKicks(board, q, k) ==
  IF k > Len(Kicks) THEN None
  ELSE LET t == [q EXCEPT !.x = q.x + Kicks[k][1], !.y = q.y + Kicks[k][2]]
       IN  IF Obstructed(board, t) THEN TryKicks(board, q, k + 1) ELSE Some(t)

Rotate(board, p) ==
  LET q == [p EXCEPT !.rot = IF p.kind = "D" THEN 1 - p.rot ELSE 0,
                     !.tspin = "None"]
      t == TryKicks(board, q, 1)
  IN  IF IsSome(t) THEN [ok |-> TRUE, piece |-> Unwrap(t)]
                   ELSE [ok |-> FALSE, piece |-> p]

Cw(board, p) == Rotate(board, p)
Ccw(board, p) == Rotate(board, p)

\* Board::on_stack
OnStack(board, p) == ~Shift(board, p, 0, -1).ok

\* FallingPiece::sonic_drop
RECURSIVE SonicDrop(_, _)
SonicDrop(board, p) ==
  LET s == Shift(board, p, 0, -1)
  IN  IF s.ok THEN SonicDrop(board, s.piece) ELSE p

\* FallingPiece::spawn
Spawn(kind, board) ==
  LET p == [kind |-> kind, rot |-> 0, x |-> SpawnX, y |-> SpawnY, tspin |-> "None"]
  IN  IF Obstructed(board, p) THEN None ELSE Some(p)

\* Board::generate_next_piece
GenerateNextPiece(s) ==
  LET d == GenRange(s, 0, Len(Kinds))
  IN  [value |-> Kinds[d.value + 1], rng |-> d.rng]

\* Board::add_next_piece
AddNextPiece(board, kind) == [board EXCEPT !.next = Append(@, kind)]

\* Board::advance_queue (the caller unwraps: the queue is never empty there)
AdvanceQueue(board) ==
  [value |-> Head(board.next), board |-> [board EXCEPT !.next = Tail(@)]]

\* Board::hold: the piece that was held, if any; `kind` takes its place.
Hold(board, kind) ==
  [value |-> board.hold, board |-> [board EXCEPT !.hold = Some(kind)]]

\* The rows of `cells` that are not full, bottom first.
RECURSIVE KeepRows(_, _)
KeepRows(cells, r) ==
  IF r > Len(cells) THEN <<>>
  ELSE IF cells[r] = Columns THEN KeepRows(cells, r + 1)
       ELSE <<cells[r]>> \o KeepRows(cells, r + 1)

\* Board::lock_piece: LockResult { cleared_lines, locked_out, garbage_sent }.
\* A piece locked wholly above the visible rows is locked out; the attack is
\* one row of garbage per line cleared.
LockPiece(board, p) ==
  LET placed == [r \in 1 .. TotalRows |->
                   board.cells[r] \cup {c[1] : c \in {d \in PieceCells(p) : d[2] + 1 = r}}]
      kept == KeepRows(placed, 1)
      n == TotalRows - Len(kept)
  IN  [board |-> [board EXCEPT !.cells =
                    [r \in 1 .. TotalRows |-> IF r <= Len(kept) THEN kept[r] ELSE EmptyRow]],
       cleared_lines |-> n,
       locked_out |-> \A c \in PieceCells(p) : c[2] >= VisibleRows,
       garbage_sent |-> n]

\* Board::add_garbage: a row with one hole at `col` is pushed in at the floor;
\* reports death when the top row was occupied.  The program's columns are
\* folded onto the modelled ones, so every garbage row has its hole.
AddGarbage(board, col) ==
  [board |-> [board EXCEPT !.cells =
                [r \in 1 .. TotalRows |->
                   IF r = 1 THEN Columns \ {col % BoardWidth} ELSE board.cells[r - 1]]],
   dead |-> board.cells[TotalRows] # EmptyRow]

(***************************************************************************)
(* GameConfig, GameState, FallingState, Event.                             *)
(***************************************************************************)
\* GameConfig { .. }
Config(sd, lcd, das, arr, sds, grav, nqs, margin, add) ==
  [spawn_delay |-> sd, line_clear_delay |-> lcd,
   delayed_auto_shift |-> das, auto_repeat_rate |-> arr,
   soft_drop_speed |-> sds, gravity |-> grav,
   next_queue_size |-> nqs, margin_time |-> margin,
   max_garbage_add |-> add]

\* FallingState; NoFalling stands for "no payload" in the other game states.
NoFalling ==
  [piece |-> NoPiece, lowest_y |-> 0, rotation_move_count |-> 0, gravity |-> 0,
   lock_delay |-> 0, soft_drop_delay |-> 0]

\* A FallingState whose accumulator starts with no deficit to work off.
FreshFallingNoDeficit(spawned, config) ==
  [piece |-> spawned, lowest_y |-> LowY(spawned), rotation_move_count |-> 0,
   gravity |-> 0, lock_delay |-> LockDelay, soft_drop_delay |-> 0]

\* The FallingState built on spawn and on a hold that brings a piece out.
FreshFalling(spawned, config) ==
  [piece |-> spawned, lowest_y |-> LowY(spawned), rotation_move_count |-> 0,
   gravity |-> config.gravity, lock_delay |-> LockDelay, soft_drop_delay |-> 0]

\* GameState: the variant's tag, the delay of the two delay variants and the
\* FallingState of Falling.
SpawnDelayState(n) == [tag |-> "SpawnDelay", delay |-> n, falling |-> NoFalling]
LineClearDelayState(n) == [tag |-> "LineClearDelay", delay |-> n, falling |-> NoFalling]
FallingGameState(f) == [tag |-> "Falling", delay |-> 0, falling |-> f]
GameOverState == [tag |-> "GameOver", delay |-> 0, falling |-> NoFalling]

\* Event: every variant is a record of the same shape; a variant fills the
\* fields it carries.
Ev(type) ==
  [type |-> type, kind |-> "-", piece |-> NoPiece, ghost |-> NoPiece,
   cleared |-> 0, locked_out |-> FALSE, garbage_sent |-> 0, dist |-> None,
   amt |-> 0, cols |-> <<>>]

EvPieceSpawned(kind) == [Ev("PieceSpawned") EXCEPT !.kind = kind]
EvPieceHeld(kind) == [Ev("PieceHeld") EXCEPT !.kind = kind]
EvPieceFalling(p, ghost) == [Ev("PieceFalling") EXCEPT !.piece = p, !.ghost = ghost]
EvPiecePlaced(p, locked, dist) ==
  [Ev("PiecePlaced") EXCEPT !.piece = p, !.cleared = locked.cleared_lines,
                            !.locked_out = locked.locked_out,
                            !.garbage_sent = locked.garbage_sent, !.dist = dist]
EvGarbageSent(n) == [Ev("GarbageSent") EXCEPT !.amt = n]
EvGarbageAdded(cols) == [Ev("GarbageAdded") EXCEPT !.cols = cols]

(***************************************************************************)
(* Game::new                                                               *)
(***************************************************************************)
RECURSIVE FillQueue(_, _, _)
FillQueue(board, s, n) ==
  IF n = 0 THEN [board |-> board, rng |-> s]
  ELSE LET d == GenerateNextPiece(s)
       IN  FillQueue(AddNextPiece(board, d.value), d.rng, n - 1)

GameNew(config, s) ==
  LET q == FillQueue(EmptyBoard, s, config.next_queue_size)
  IN  [game |-> [board |-> q.board, config |-> config, prev |-> NoInput,
                 used |-> NoInput, did_hold |-> FALSE,
                 das_delay |-> config.delayed_auto_shift,
                 state |-> SpawnDelayState(config.spawn_delay),
                 garbage_queue |-> 0, attacking |-> 0],
       rng |-> q.rng]

(***************************************************************************)
(* Game::deal_garbage                                                      *)
(***************************************************************************)
\* The loop `for _ in 0..n`: each round may redraw the column, records it and
\* pushes one garbage row.
RECURSIVE GarbageRows(_, _, _, _, _, _)
GarbageRows(board, s, col, cols, dead, n) ==
  IF n = 0 THEN [board |-> board, rng |-> s, cols |-> cols, dead |-> dead]
  ELSE LET b == GenBoolThird(s)
           c == IF b.value THEN GenRange(b.rng, 0, GarbageColumns)
                           ELSE [value |-> col, rng |-> b.rng]
           a == AddGarbage(board, c.value)
       IN  GarbageRows(a.board, c.rng, c.value, Append(cols, c.value),
                       dead \/ a.dead, n - 1)

\* A cancellation that leaves the queue alone when the attack is larger.
CancelKeepsQueue(g) ==
  IF g.attacking > g.garbage_queue
    THEN [g EXCEPT !.attacking = g.attacking - g.garbage_queue]
    ELSE [g EXCEPT !.garbage_queue = g.garbage_queue - g.attacking, !.attacking = 0]

\* A cancellation that forgets to take the attack off the larger queue.
CancelKeepsIncoming(g) ==
  IF g.attacking > g.garbage_queue
    THEN [g EXCEPT !.attacking = g.attacking - g.garbage_queue, !.garbage_queue = 0]
    ELSE [g EXCEPT !.attacking = 0]

\* The cancellation of lines 348-354.
Cancel(g) ==
  IF g.attacking > g.garbage_queue
    THEN [g EXCEPT !.attacking = g.attacking - g.garbage_queue, !.garbage_queue = 0]
    ELSE [g EXCEPT !.garbage_queue = g.garbage_queue - g.attacking, !.attacking = 0]

\* An injection that ignores max_garbage_add.
RowsToAddUncapped(g) == g.garbage_queue

\* The number of rows one call injects.
RowsToAdd(g) == Min(g.garbage_queue, g.config.max_garbage_add)

DealGarbage(g0, events, s) ==
  LET g == Cancel(g0)
  IN  IF g.garbage_queue > 0
        THEN LET first == GenRange(s, 0, GarbageColumns)
                 r == GarbageRows(g.board, first.rng, first.value, <<>>, FALSE, RowsToAdd(g))
                 g1 == [g EXCEPT !.board = r.board,
                                 !.garbage_queue = g.garbage_queue - RowsToAdd(g)]
                 ev1 == Append(events, EvGarbageAdded(r.cols))
             IN  IF r.dead
                   THEN [game |-> [g1 EXCEPT !.state = GameOverState], rng |-> r.rng,
                         events |-> Append(ev1, Ev("GameOver"))]
                   ELSE [game |-> g1, rng |-> r.rng, events |-> ev1]
        ELSE IF g.attacking > 0
          THEN [game |-> [g EXCEPT !.attacking = 0], rng |-> s,
                events |-> Append(events, EvGarbageSent(g.attacking))]
          ELSE [game |-> g, rng |-> s, events |-> events]

(***************************************************************************)
(* Game::lock                                                              *)
(***************************************************************************)
\* A lock that deals garbage at once after a line clear as well.
LockDealsAtOnce(g, falling, events, s, dist) ==
  LET locked == LockPiece(g.board, falling.piece)
      g1 == [g EXCEPT !.did_hold = FALSE, !.board = locked.board]
      ev1 == Append(events, EvPiecePlaced(falling.piece, locked, dist))
  IN  IF locked.locked_out
        THEN [game |-> [g1 EXCEPT !.state = GameOverState], rng |-> s,
              events |-> Append(ev1, Ev("GameOver"))]
      ELSE IF locked.cleared_lines = 0
        THEN DealGarbage([g1 EXCEPT !.state = SpawnDelayState(g.config.spawn_delay)],
                         ev1, s)
      ELSE DealGarbage([g1 EXCEPT !.attacking = g.attacking + locked.garbage_sent,
                                  !.state = LineClearDelayState(g.config.line_clear_delay)],
                       ev1, s)

Lock(g, falling, events, s, dist) ==
  LET locked == LockPiece(g.board, falling.piece)
      g1 == [g EXCEPT !.did_hold = FALSE, !.board = locked.board]
      ev1 == Append(events, EvPiecePlaced(falling.piece, locked, dist))
  IN  IF locked.locked_out
        THEN [game |-> [g1 EXCEPT !.state = GameOverState], rng |-> s,
              events |-> Append(ev1, Ev("GameOver"))]
      ELSE IF locked.cleared_lines = 0
        THEN DealGarbage([g1 EXCEPT !.state = SpawnDelayState(g.config.spawn_delay)],
                         ev1, s)
      ELSE [game |-> [g1 EXCEPT !.attacking = g.attacking + locked.garbage_sent,
                                !.state = LineClearDelayState(g.config.line_clear_delay)],
            rng |-> s, events |-> ev1]

(***************************************************************************)
(* Game::update: the input phase (lines 86-116).                           *)
(***************************************************************************)
\* fn update_input(used, prev, current)
update_input(used, prev, current) ==
  IF ~current THEN FALSE
  ELSE IF ~prev THEN TRUE
  ELSE used

\* Lines 86-93: the edge detection of the seven buttons.
UsedAfterEdges(g, current) ==
  [left |-> update_input(g.used.left, g.prev.left, current.left),
   right |-> update_input(g.used.right, g.prev.right, current.right),
   rotate_right |-> update_input(g.used.rotate_right, g.prev.rotate_right,
                                 current.rotate_right),
   rotate_left |-> update_input(g.used.rotate_left, g.prev.rotate_left,
                                current.rotate_left),
   hold |-> update_input(g.used.hold, g.prev.hold, current.hold),
   hard_drop |-> (~g.prev.hard_drop /\ current.hard_drop),
   soft_drop |-> current.soft_drop]

\* Lines 95-114: the delayed-auto-shift countdown, on the `used` of lines 86-93.
DasPhase(g, used, current) ==
  IF current.left # current.right /\ g.prev.left = current.left
    THEN IF used.left \/ used.right
           THEN [used |-> used,
                 das_delay |-> IF g.das_delay > g.config.auto_repeat_rate
                                 THEN g.das_delay - 1 ELSE g.das_delay]
         ELSE IF g.das_delay = 0
           THEN [used |-> [used EXCEPT !.left = current.left, !.right = current.right],
                 das_delay |-> g.config.auto_repeat_rate]
         ELSE [used |-> used, das_delay |-> g.das_delay - 1]
    ELSE [used |-> used, das_delay |-> g.config.delayed_auto_shift]

\* Lines 86-116.
InputPhase(g, current) ==
  LET d == DasPhase(g, UsedAfterEdges(g, current), current)
  IN  [g EXCEPT !.used = d.used, !.das_delay = d.das_delay, !.prev = current]

(***************************************************************************)
(* Game::update: the Falling arm (lines 162-315).  A step of the arm works *)
(* on m = [used, falling, events].                                         *)
(***************************************************************************)
\* A successful move that leaves the lock delay as it was.
MovedKeepsDelay(m, piece, ev) ==
  [m EXCEPT !.falling.piece = piece,
            !.falling.rotation_move_count = @ + 1,
            !.events = Append(@, Ev(ev))]

\* Lines 196-198, 208-210, 222-224, 230-232: a successful move.
Moved(m, piece, ev) ==
  [m EXCEPT !.falling.piece = piece,
            !.falling.rotation_move_count = @ + 1,
            !.falling.lock_delay = LockDelay,
            !.events = Append(@, Ev(ev))]

RotationEvent(piece) == IF piece.tspin # "None" THEN "PieceTSpined" ELSE "PieceRotated"

\* Lines 194-205.
StepRotateRight(m, board) ==
  LET r == Cw(board, m.falling.piece)
  IN  IF m.used.rotate_right /\ r.ok
        THEN [Moved(m, r.piece, RotationEvent(r.piece)) EXCEPT !.used.rotate_right = FALSE]
        ELSE m

\* Lines 206-217.
StepRotateLeft(m, board) ==
  LET r == Ccw(board, m.falling.piece)
  IN  IF m.used.rotate_left /\ r.ok
        THEN [Moved(m, r.piece, RotationEvent(r.piece)) EXCEPT !.used.rotate_left = FALSE]
        ELSE m

\* Lines 220-227.
StepShiftLeft(m, board) ==
  LET r == Shift(board, m.falling.piece, -1, 0)
  IN  IF m.used.left /\ r.ok
        THEN [Moved(m, r.piece, "PieceMoved") EXCEPT !.used.left = FALSE]
        ELSE m

\* Lines 228-235.
StepShiftRight(m, board) ==
  LET r == Shift(board, m.falling.piece, 1, 0)
  IN  IF m.used.right /\ r.ok
        THEN [Moved(m, r.piece, "PieceMoved") EXCEPT !.used.right = FALSE]
        ELSE m

\* A 15 moves reset that forgets the moves made wherever the piece is.
MoveResetAlways(f) ==
  [f EXCEPT !.rotation_move_count = 0, !.lowest_y = Min(LowY(f.piece), f.lowest_y)]

\* Lines 237-242: 15 moves reset.
MoveReset(f) ==
  IF LowY(f.piece) < f.lowest_y
    THEN [f EXCEPT !.rotation_move_count = 0, !.lowest_y = LowY(f.piece)]
    ELSE f

\* A lock rule that waits for one move more.
MoveLockDueLate(f, board) ==
  /\ f.rotation_move_count > MoveLimit
  /\ LowY(SonicDrop(board, f.piece)) >= f.lowest_y

\* Lines 245-249: the condition of the 15 moves lock rule.
MoveLockDue(f, board) ==
  /\ f.rotation_move_count >= MoveLimit
  /\ LowY(SonicDrop(board, f.piece)) >= f.lowest_y

\* A gravity loop that starts the accumulator afresh at each step and so
\* loses what was left over.
RECURSIVE GravityLoopForgets(_, _, _)
GravityLoopForgets(f, board, config) ==
  IF f.gravity < 0
    THEN GravityLoopForgets([f EXCEPT !.gravity = config.gravity,
                                      !.piece = Shift(board, @, 0, -1).piece],
                            board, config)
    ELSE f

\* Lines 282-285: the gravity loop.
RECURSIVE GravityLoop(_, _, _)
GravityLoop(f, board, config) ==
  IF f.gravity < 0
    THEN GravityLoop([f EXCEPT !.gravity = @ + config.gravity,
                               !.piece = Shift(board, @, 0, -1).piece],
                     board, config)
    ELSE f

\* Lines 289-307: soft drop, for a piece still airborne after gravity.
SoftDrop(m, board, config) ==
  IF config.gravity > config.soft_drop_speed * GravityUnit
    THEN IF m.used.soft_drop
           THEN IF m.falling.soft_drop_delay = 0
                  THEN LET q == Shift(board, m.falling.piece, 0, -1).piece
                           ev == Append(m.events, Ev("PieceMoved"))
                           ev2 == IF OnStack(board, q)
                                    THEN Append(ev, Ev("StackTouched")) ELSE ev
                       IN  [m EXCEPT !.falling.piece = q,
                                     !.falling.soft_drop_delay = config.soft_drop_speed,
                                     !.falling.gravity = config.gravity,
                                     !.events = Append(ev2, Ev("SoftDropped"))]
                  ELSE [m EXCEPT !.falling.soft_drop_delay = @ - 1]
           ELSE [m EXCEPT !.falling.soft_drop_delay = 0]
    ELSE m

\* Lines 310-314: the ghost is computed and the tick ends in Falling.
StayFalling(g, m, s) ==
  [game |-> [g EXCEPT !.used = m.used, !.state = FallingGameState(m.falling)],
   rng |-> s,
   events |-> Append(m.events,
                     EvPieceFalling(m.falling.piece, SonicDrop(g.board, m.falling.piece)))]

\* Lines 266-308: lock delay for a piece on the stack, gravity and soft drop
\* for an airborne one.
LockDelayOrGravity(g, m, s, was_on_stack) ==
  IF OnStack(g.board, m.falling.piece)
    THEN LET m1 == [m EXCEPT !.events = IF was_on_stack THEN @
                                        ELSE Append(@, Ev("StackTouched")),
                             !.falling.lock_delay = @ - 1,
                             !.falling.gravity = g.config.gravity]
         IN  IF m1.falling.lock_delay = 0
               THEN Lock([g EXCEPT !.used = m1.used], m1.falling, m1.events, s, None)
               ELSE StayFalling(g, m1, s)
    ELSE LET f1 == GravityLoop([m.falling EXCEPT !.lock_delay = LockDelay,
                                                 !.gravity = @ - GravityUnit],
                               g.board, g.config)
             m1 == [m EXCEPT !.falling = f1]
         IN  IF OnStack(g.board, f1.piece)
               THEN StayFalling(g, [m1 EXCEPT !.events = Append(@, Ev("StackTouched"))], s)
               ELSE StayFalling(g, SoftDrop(m1, g.board, g.config), s)

\* A hard drop that measures its distance from the spawn row.
HardDropFromSpawnRow(g, m, s) ==
  LET dropped == SonicDrop(g.board, m.falling.piece)
  IN  Lock([g EXCEPT !.used = m.used], [m.falling EXCEPT !.piece = dropped],
           m.events, s, Some(SpawnY - dropped.y))

\* Lines 256-264: hard drop.
HardDrop(g, m, s) ==
  LET dropped == SonicDrop(g.board, m.falling.piece)
      distance == m.falling.piece.y - dropped.y
  IN  Lock([g EXCEPT !.used = m.used], [m.falling EXCEPT !.piece = dropped],
           m.events, s, Some(distance))

\* Hold as it would be if it did not record that the piece was held.
HoldPieceUnrecorded(g, s) ==
  LET falling == g.state.falling
      ev == <<EvPieceHeld(falling.piece.kind)>>
      h == Hold(g.board, falling.piece.kind)
      g1 == [g EXCEPT !.board = h.board]
  IN  IF IsSome(h.value)
        THEN LET sp == Spawn(Unwrap(h.value), g1.board)
             IN  IF IsSome(sp)
                   THEN [game |-> [g1 EXCEPT !.state =
                                     FallingGameState(FreshFalling(Unwrap(sp), g.config))],
                         rng |-> s,
                         events |-> Append(ev, EvPieceFalling(Unwrap(sp),
                                                  SonicDrop(g1.board, Unwrap(sp))))]
                   ELSE [game |-> [g1 EXCEPT !.state = GameOverState], rng |-> s,
                         events |-> Append(ev, Ev("GameOver"))]
        ELSE [game |-> [g1 EXCEPT !.state = SpawnDelayState(g.config.spawn_delay)],
              rng |-> s, events |-> ev]

\* Lines 167-191: hold.
HoldPiece(g, s) ==
  LET falling == g.state.falling
      ev == <<EvPieceHeld(falling.piece.kind)>>
      h == Hold(g.board, falling.piece.kind)
      g1 == [g EXCEPT !.did_hold = TRUE, !.board = h.board]
  IN  IF IsSome(h.value)
        THEN LET sp == Spawn(Unwrap(h.value), g1.board)
             IN  IF IsSome(sp)
                   THEN [game |-> [g1 EXCEPT !.state =
                                     FallingGameState(FreshFalling(Unwrap(sp), g.config))],
                         rng |-> s,
                         events |-> Append(ev, EvPieceFalling(Unwrap(sp),
                                                  SonicDrop(g1.board, Unwrap(sp))))]
                   ELSE [game |-> [g1 EXCEPT !.state = GameOverState], rng |-> s,
                         events |-> Append(ev, Ev("GameOver"))]
        ELSE [game |-> [g1 EXCEPT !.state = SpawnDelayState(g.config.spawn_delay)],
              rng |-> s, events |-> ev]

\* Lines 193-235: rotate, then shift.
RotateAndShift(g) ==
  StepShiftRight(
    StepShiftLeft(
      StepRotateLeft(
        StepRotateRight([used |-> g.used, falling |-> g.state.falling, events |-> <<>>],
                        g.board),
        g.board),
      g.board),
    g.board)

\* Lines 162-315.
FallingArm(g, s) ==
  LET was_on_stack == OnStack(g.board, g.state.falling.piece)
  IN  IF ~g.did_hold /\ g.used.hold
        THEN HoldPiece(g, s)
        ELSE LET m0 == RotateAndShift(g)
                 m == [m0 EXCEPT !.falling = MoveReset(@)]
             IN  IF MoveLockDue(m.falling, g.board)
                   THEN Lock([g EXCEPT !.used = m.used], m.falling, m.events, s, None)
                 ELSE IF m.used.hard_drop
                   THEN HardDrop(g, m, s)
                 ELSE LockDelayOrGravity(g, m, s, was_on_stack)

\* Lines 283-284: one iteration of the gravity loop.
GravityBody(f, board, config) ==
  [f EXCEPT !.gravity = @ + config.gravity, !.piece = Shift(board, @, 0, -1).piece]

\* The Falling arm up to line 245, for a game g that is past the input phase
\* and does not hold: the moves and the 15 moves reset.
AfterMovesOf(g) == [RotateAndShift(g) EXCEPT !.falling = MoveReset(@)]

\* Whether Game::update(current) on game g0 comes to the gravity branch
\* (line 278): the game is Falling, and the update neither holds nor locks by
\* the 15 moves rule nor hard drops, and the piece is off the stack.
ReachesGravity(g0, current) ==
  LET g == InputPhase(g0, current)
  IN  /\ g.state.tag = "Falling"
      /\ ~(~g.did_hold /\ g.used.hold)
      /\ ~MoveLockDue(AfterMovesOf(g).falling, g.board)
      /\ ~AfterMovesOf(g).used.hard_drop
      /\ ~OnStack(g.board, AfterMovesOf(g).falling.piece)

\* Whether Game::update(current) on game g0 comes to the lock delay branch
\* (line 267): as above, but the piece is on the stack after its moves.
ReachesLockDelay(g0, current) ==
  LET g == InputPhase(g0, current)
  IN  /\ g.state.tag = "Falling"
      /\ ~(~g.did_hold /\ g.used.hold)
      /\ ~MoveLockDue(AfterMovesOf(g).falling, g.board)
      /\ ~AfterMovesOf(g).used.hard_drop
      /\ OnStack(g.board, AfterMovesOf(g).falling.piece)

\* Whether a rotation or a shift of Game::update(current) on the Falling game
\* g0 succeeds (lines 194-235).
MoveSucceeds(g0, current) == RotateAndShift(InputPhase(g0, current)).events # <<>>

\* Lines 280-281: the FallingState the gravity loop of such an update starts on.
AtLoopEntry(g0, current) ==
  [AfterMovesOf(InputPhase(g0, current)).falling EXCEPT
     !.lock_delay = LockDelay, !.gravity = @ - GravityUnit]

(***************************************************************************)
(* Game::update: the other arms (lines 119-161).                           *)
(***************************************************************************)
\* Lines 119-142: SpawnDelay(0).
SpawnArm(g, s) ==
  LET a == AdvanceQueue(g.board)
      d == GenerateNextPiece(s)
      board == AddNextPiece(a.board, d.value)
      sp == Spawn(a.value, board)
  IN  IF IsSome(sp)
        THEN [game |-> [g EXCEPT !.board = board,
                                 !.state = FallingGameState(FreshFalling(Unwrap(sp), g.config))],
              rng |-> d.rng,
              events |-> <<EvPieceSpawned(d.value),
                           EvPieceFalling(Unwrap(sp), SonicDrop(board, Unwrap(sp)))>>]
        ELSE [game |-> [g EXCEPT !.board = board, !.state = GameOverState],
              rng |-> d.rng, events |-> <<Ev("GameOver")>>]

\* A spawn-delay arm that spawns on the tick that would take the counter to 0.
SpawnDelayArmSpawnsAtOne(g, s) ==
  IF g.state.delay = 1
    THEN SpawnArm(g, s)
    ELSE [game |-> [g EXCEPT !.state.delay = @ - 1], rng |-> s,
          events |-> IF g.state.delay = g.config.spawn_delay
                       THEN <<Ev("SpawnDelayStart")>> ELSE <<>>]

\* Lines 143-150: SpawnDelay(n), n > 0.
SpawnDelayArm(g, s) ==
  [game |-> [g EXCEPT !.state.delay = @ - 1], rng |-> s,
   events |-> IF g.state.delay = g.config.spawn_delay
                THEN <<Ev("SpawnDelayStart")>> ELSE <<>>]

\* Lines 151-156: LineClearDelay(0).
LineClearEndArm(g, s) ==
  DealGarbage([g EXCEPT !.state = SpawnDelayState(g.config.spawn_delay)],
              <<Ev("EndOfLineClearDelay")>>, s)

\* Lines 157-160: LineClearDelay(n), n > 0.
LineClearDelayArm(g, s) ==
  [game |-> [g EXCEPT !.state.delay = @ - 1], rng |-> s, events |-> <<>>]

\* A game-over arm that falls through to the spawn arm.
GameOverArmRespawns(g, s) == SpawnArm(g, s)

\* Line 161.
GameOverArm(g, s) == [game |-> g, rng |-> s, events |-> <<Ev("GameOver")>>]

\* Game::update(current, rng): the game, the generator and the events after it.
GameUpdate(g0, current, s) ==
  LET g == InputPhase(g0, current)
  IN  CASE g.state.tag = "SpawnDelay" /\ g.state.delay = 0 -> SpawnArm(g, s)
        [] g.state.tag = "SpawnDelay" /\ g.state.delay > 0 -> SpawnDelayArm(g, s)
        [] g.state.tag = "LineClearDelay" /\ g.state.delay = 0 -> LineClearEndArm(g, s)
        [] g.state.tag = "LineClearDelay" /\ g.state.delay > 0 -> LineClearDelayArm(g, s)
        [] g.state.tag = "GameOver" -> GameOverArm(g, s)
        [] g.state.tag = "Falling" -> FallingArm(g, s)

(***************************************************************************)
(* Battle                                                                  *)
(***************************************************************************)
\* The state: player_1 and player_2 (game[1], game[2]), p1_rng and p2_rng,
\* time, the multiplier (kept doubled: it only ever takes multiples of 0.5),
\* margin_time and the replay's updates; `events` holds the event lists the
\* last update returned.
VARIABLES game, rng, time, multiplier2, margin_time, replay, events

\* An observer's counter, no field of the program: the updates in a row, up to
\* the last one, that found player 1's game Falling and were given left held
\* and right released.
VARIABLE held_left

\* An observer's record, no field of the program, of how player 1's piece has
\* been falling under gravity: `since` counts the updates in a row, up to the
\* last one, that took the gravity branch without a soft drop and left the
\* piece where it was; `gap` is, after an update in which gravity moved the piece,
\* the number of such updates up to and including it since the one before (or
\* since the gravity branch was first taken), and `cells` the cells it fell.
VARIABLE fall_watch

\* An observer's window, no field of the program: `ticks` updates in a row, up
\* to the last one, took the gravity branch without a soft drop, and the
\* gravity loop ran `steps` times in them.  The observer may start the window
\* anew at any update.
VARIABLE window

\* An observer's flags, no field of the program: for each button that does
\* not repeat, whether its action has happened on player 1's game during the
\* press that the last update was given (FALSE when it was given the button
\* released).
VARIABLE fired

\* A Controller on its way through the wire format: the value, the byte it
\* was serialized to and the value deserialized from that byte.
VARIABLE wire

\* A call of Game::update on player 1's game that is inside the gravity loop
\* (lines 282-285): the controller it was given and the FallingState the
\* loop works on.  The call is in the loop while `active` is TRUE and past it,
\* with the rest of the update to run, while `exited` is TRUE.
VARIABLE call

\* An observer's counter, no field of the program: the PieceHeld events of
\* player 1's game since its last PiecePlaced (or since the game began),
\* counted up to 2.
VARIABLE held_since

\* An observer's counter, no field of the program: the updates in a row, up
\* to the last one, that found player 1's piece on the stack at line 266,
\* counted from the last of them in which a rotation or a shift succeeded.
VARIABLE grounded

\* What no update of a game or of the battle touches.
\* The parity of the updates an observer of the first piece has seen.
VARIABLE beat

watchers == <<fall_watch, window, fired, wire, call, held_since, grounded, beat>>

vars == <<game, rng, time, multiplier2, margin_time, replay, events, held_left, watchers>>

\* A schedule that starts only after the counter has passed margin_time.
NextMultiplier2Late(t, m2, margin) ==
  IF IsSome(margin) /\ t > Unwrap(margin) /\ (t - Unwrap(margin)) % RampPeriod = 0
    THEN m2 + 1
    ELSE m2

\* Lines 422-427: the multiplier after the tick that takes the counter to t.
NextMultiplier2(t, m2, margin) ==
  IF IsSome(margin) /\ t >= Unwrap(margin) /\ (t - Unwrap(margin)) % RampPeriod = 0
    THEN m2 + 1
    ELSE m2

\* (amt as f32 * self.multiplier) as u32
Scaled(amt, m2) == (amt * m2) \div 2

\* Lines 434-438 (and 439-443): what one player's events add to the other's queue.
RECURSIVE Routed(_, _)
Routed(evs, m2) ==
  IF evs = <<>> THEN 0
  ELSE (IF Head(evs).type = "GarbageSent" THEN Scaled(Head(evs).amt, m2) ELSE 0)
       + Routed(Tail(evs), m2)

\* Player i's game, generator and events become those of update result u.
Updated(b, i, u) ==
  [b EXCEPT !.game[i] = u.game, !.rng[i] = u.rng, !.events[i] = u.events]

\* Line 431 (i = 1) and line 432 (i = 2): player i's game is updated with
\* its own controller and its own generator.
UpdatePlayer(b, i, p) == Updated(b, i, GameUpdate(b.game[i], p, b.rng[i]))

\* Lines 434-438 (from 1 to 2) and 439-443 (from 2 to 1): the garbage one
\* player sent is added to the other's queue.
RouteGarbage(b, from, to, m2) ==
  [b EXCEPT !.game[to].garbage_queue = @ + Routed(b.events[from], m2)]

\* The games before either update of a tick.
BeforeUpdates(games, rngs) ==
  [game |-> games, rng |-> rngs, events |-> <<<<>>, <<>>>>]

\* Player 1's update and then player 2's.
BothUpdated(games, rngs, p1, p2) ==
  UpdatePlayer(UpdatePlayer(BeforeUpdates(games, rngs), 1, p1), 2, p2)

\* An update that hands player 1's garbage over before player 2 is updated.
UpdatePlayersRoutedEarly(games, rngs, m2, p1, p2) ==
  RouteGarbage(
    UpdatePlayer(
      RouteGarbage(UpdatePlayer(BeforeUpdates(games, rngs), 1, p1), 1, 2, m2),
      2, p2),
    2, 1, m2)

\* Lines 431-443: both games are updated, then the garbage is routed.
UpdatePlayers(games, rngs, m2, p1, p2) ==
  RouteGarbage(RouteGarbage(BothUpdated(games, rngs, p1, p2), 1, 2, m2), 2, 1, m2)

\* Battle::new
BattleNew(config, p1_seed, p2_seed) ==
  LET n1 == GameNew(config, p1_seed)
      n2 == GameNew(config, p2_seed)
  IN  [game |-> <<n1.game, n2.game>>, rng |-> <<n1.rng, n2.rng>>, time |-> 0,
       margin_time |-> config.margin_time, multiplier2 |-> 2, replay |-> <<>>]

\* The variables hold battle b; no update has returned events yet.
Holds(b) ==
  /\ game = b.game
  /\ rng = b.rng
  /\ time = b.time
  /\ margin_time = b.margin_time
  /\ multiplier2 = b.multiplier2
  /\ replay = b.replay
  /\ events = <<<<>>, <<>>>>
  /\ held_left = 0
  /\ fall_watch = [since |-> 0, gap |-> 0, cells |-> 0]
  /\ window = [ticks |-> 0, steps |-> 0]
  /\ wire = [stage |-> "idle", controller |-> NoInput, byte |-> 0, decoded |-> NoInput]
  /\ call = [active |-> FALSE, exited |-> FALSE, current |-> NoInput, falling |-> NoFalling]
  /\ held_since = 0
  /\ grounded = 0
  /\ beat = 0
  /\ fired = [button \in {"rotate_right", "rotate_left", "hold", "hard_drop"} |-> FALSE]

\* The games, the generators and the returned events become those of u.
Becomes(u) ==
  /\ game' = u.game
  /\ rng' = u.rng
  /\ events' = u.events

\* Battle::update
BattleUpdate(p1, p2) ==
  /\ time' = time + 1
  /\ multiplier2' = NextMultiplier2(time + 1, multiplier2, margin_time)
  /\ replay' = Append(replay, <<p1, p2>>)
  /\ Becomes(UpdatePlayers(game, rng, multiplier2', p1, p2))
  /\ UNCHANGED <<margin_time, held_left, watchers>>

\* Game::update called on player_1 alone (the games are public fields).
GameStep(current) ==
  /\ Becomes(UpdatePlayer([game |-> game, rng |-> rng, events |-> events], 1, current))
  /\ UNCHANGED <<time, multiplier2, margin_time, replay>>

PlayerUpdate(current) == GameStep(current) /\ UNCHANGED <<held_left, watchers>>

\* The same update, watched by the observer's counter.
WatchedUpdate(current) ==
  /\ GameStep(current)
  /\ held_left' = IF current.left /\ ~current.right /\ game[1].state.tag = "Falling"
                    THEN Min(held_left + 1, HeldCap)
                    ELSE 0
  /\ UNCHANGED watchers

\* Whether the update being taken ran the gravity branch (lines 278-285) on
\* player 1's piece without a soft-drop step: only that branch leaves a piece
\* that was falling before the update with lock_delay = 30 after it.
GravityRan ==
  /\ game[1].state.tag = "Falling"
  /\ game'[1].state.tag = "Falling"
  /\ game'[1].state.falling.lock_delay = LockDelay
  /\ \A i \in 1 .. Len(events'[1]) : events'[1][i].type \notin {"PieceHeld", "SoftDropped"}

\* The iterations of the gravity loop (lines 282-285) in such an update: each
\* adds config.gravity to the accumulator, after line 281 took 100 off.
GravitySteps ==
  (game'[1].state.falling.gravity - (game[1].state.falling.gravity - GravityUnit))
    \div game[1].config.gravity

\* The cells player 1's piece is lower after the update than before it.
Fell == game[1].state.falling.piece.y - game'[1].state.falling.piece.y

\* Game::update on player_1, watched for the falls of the piece.
WatchedFall(current) ==
  /\ GameStep(current)
  /\ fall_watch' =
       IF ~GravityRan THEN [since |-> 0, gap |-> 0, cells |-> 0]
       ELSE IF Fell > 0 THEN [since |-> 0, gap |-> fall_watch.since + 1, cells |-> Fell]
       ELSE [since |-> fall_watch.since + 1, gap |-> 0, cells |-> 0]
  /\ UNCHANGED <<held_left, window, fired, wire, call, held_since, grounded, beat>>

\* Game::update on player_1, watched over a window of gravity updates that
\* the observer starts anew when `restart` is set.
WatchedWindow(current, restart) ==
  /\ GameStep(current)
  /\ window' =
       IF ~GravityRan THEN [ticks |-> 0, steps |-> 0]
       ELSE IF restart THEN [ticks |-> 1, steps |-> GravitySteps]
       ELSE [ticks |-> window.ticks + 1, steps |-> window.steps + GravitySteps]
  /\ UNCHANGED <<held_left, fall_watch, fired, wire, call, held_since, grounded, beat>>

\* The buttons that do not repeat.
EdgeButtons == {"rotate_right", "rotate_left", "hold", "hard_drop"}

\* The controller the update being taken was given (line 116 keeps it).
GivenNow == game'[1].prev

\* Whether button b's action happens on player 1's game in the update being
\* taken: a rotation succeeded (lines 196 and 208 clear the button's `used`),
\* a piece was held (line 169) or a hard drop locked a piece (line 261).
ActsNow(b) ==
  IF b = "hold" THEN \E i \in 1 .. Len(events'[1]) : events'[1][i].type = "PieceHeld"
  ELSE IF b = "hard_drop"
    THEN \E i \in 1 .. Len(events'[1]) :
           events'[1][i].type = "PiecePlaced" /\ IsSome(events'[1][i].dist)
  ELSE /\ game[1].state.tag = "Falling"
       /\ UsedAfterEdges(game[1], GivenNow)[b]
       /\ ~game'[1].used[b]

\* Game::update on player_1, watched for the actions of the presses.
WatchedPress(current) ==
  /\ GameStep(current)
  /\ fired' = [b \in EdgeButtons |->
                 IF ~current[b] THEN FALSE
                 ELSE IF ~game[1].prev[b] THEN ActsNow(b)
                 ELSE fired[b] \/ ActsNow(b)]
  /\ UNCHANGED <<held_left, fall_watch, window, wire, call, held_since, grounded, beat>>

\* The types of the events of a list, in order.
Types(evs) == [i \in 1 .. Len(evs) |-> evs[i].type]

\* Whether the update being taken returned an event of the given type to
\* player 1.
Returned(type) == \E i \in 1 .. Len(events'[1]) : events'[1][i].type = type

\* Game::update on player_1, watched for the holds between locks.
WatchedHold(current) ==
  /\ GameStep(current)
  /\ held_since' = IF Returned("PiecePlaced") THEN 0
                   ELSE IF Returned("PieceHeld") THEN Min(held_since + 1, 2)
                   ELSE held_since
  /\ UNCHANGED <<held_left, fall_watch, window, fired, wire, call, grounded, beat>>

\* Game::update on player_1, watched for the ticks in a row that the piece has
\* been through the lock delay branch since its last successful move.
WatchedGround(current) ==
  /\ GameStep(current)
  /\ grounded' = IF ~ReachesLockDelay(game[1], current) THEN 0
                 ELSE IF MoveSucceeds(game[1], current) THEN 1
                 ELSE Min(grounded + 1, LockDelay + 1)
  /\ UNCHANGED <<held_left, fall_watch, window, fired, wire, call, held_since, beat>>

\* The bit of byte v at position k.
Bit(v, k) == (v \div (2 ^ k)) % 2

\* A serialization that has rotate_right before rotate_left.
SerializeControllerClockwiseFirst(c) ==
    (IF c.left THEN 2 ELSE 0)
  + (IF c.right THEN 4 ELSE 0)
  + (IF c.rotate_right THEN 8 ELSE 0)
  + (IF c.rotate_left THEN 16 ELSE 0)
  + (IF c.hold THEN 32 ELSE 0)
  + (IF c.soft_drop THEN 64 ELSE 0)
  + (IF c.hard_drop THEN 128 ELSE 0)

\* Lines 521-533: impl Serialize for Controller.  The shifted bits are
\* disjoint, so their bitwise or is their sum.
SerializeController(c) ==
    (IF c.left THEN 2 ^ 1 ELSE 0)
  + (IF c.right THEN 2 ^ 2 ELSE 0)
  + (IF c.rotate_left THEN 2 ^ 3 ELSE 0)
  + (IF c.rotate_right THEN 2 ^ 4 ELSE 0)
  + (IF c.hold THEN 2 ^ 5 ELSE 0)
  + (IF c.soft_drop THEN 2 ^ 6 ELSE 0)
  + (IF c.hard_drop THEN 2 ^ 7 ELSE 0)

\* Lines 535-557: impl Deserialize for Controller (visit_u64).
DeserializeController(v) ==
  [left |-> Bit(v, 1) # 0, right |-> Bit(v, 2) # 0, rotate_left |-> Bit(v, 3) # 0,
   rotate_right |-> Bit(v, 4) # 0, hold |-> Bit(v, 5) # 0, soft_drop |-> Bit(v, 6) # 0,
   hard_drop |-> Bit(v, 7) # 0]

\* A controller with exactly the buttons of `pressed` held.
Pressing(pressed) ==
  [left |-> "left" \in pressed, right |-> "right" \in pressed,
   rotate_right |-> "rotate_right" \in pressed, rotate_left |-> "rotate_left" \in pressed,
   soft_drop |-> "soft_drop" \in pressed, hard_drop |-> "hard_drop" \in pressed,
   hold |-> "hold" \in pressed]

Seeds == 0 .. (NumSeeds - 1)

\* Cells a playfield may hold when play is taken up: none, or a floor row that
\* lacks only the two cells below the spawning piece.
GapRow == Columns \ {SpawnX, SpawnX + 1}
GapCells == [r \in 1 .. TotalRows |-> IF r = 1 THEN GapRow ELSE EmptyRow]
StartCells == {EmptyBoard.cells, GapCells}

\* Battle b with player i's playfield holding `cells`.
WithCells(b, i, cells) == [b EXCEPT !.game[i].board.cells = cells]

(***************************************************************************)
(* Spec: player 1's game played with hard drop and hold; once the game is  *)
(* over any single button may be pressed.                                  *)
(***************************************************************************)
PlayConfigs ==
  {Config(1, 1, 1, 0, 1, 250, 1, None, 2)}

PlayInputs == {Pressing({}), Pressing({"hard_drop"}), Pressing({"hold"})}

Buttons ==
  {"left", "right", "rotate_right", "rotate_left", "soft_drop", "hard_drop", "hold"}

SingleButtons == {Pressing({b}) : b \in Buttons}

Init ==
  \E config \in PlayConfigs, s \in Seeds, cells \in StartCells :
    Holds(WithCells(BattleNew(config, s, s), 1, cells))

Play == \E current \in PlayInputs : PlayerUpdate(current)

PlayOn ==
  /\ game[1].state.tag = "GameOver"
  /\ \E current \in SingleButtons : PlayerUpdate(current)

Next == Play \/ PlayOn

Spec == Init /\ [][Next]_vars

(***************************************************************************)
(* SpecMoves: player 1's game played with rotations and left shifts under  *)
(* slow gravity; some rotations come with a hard drop.                     *)
(***************************************************************************)
MoveConfigs ==
  {Config(0, 0, 1, 0, 1, 2000, 1, None, 2)}

MoveInputs ==
  {Pressing({"rotate_right"}), Pressing({"rotate_left", "left"}),
   Pressing({"rotate_right", "hard_drop"})}

InitMoves ==
  \E config \in MoveConfigs, s \in Seeds :
    Holds(BattleNew(config, s, s))

PlayMoves == \E current \in MoveInputs : PlayerUpdate(current)

NextMoves == PlayMoves

SpecMoves == InitMoves /\ [][NextMoves]_vars

(***************************************************************************)
(* SpecDas: player 1's game with delayed_auto_shift 12 and auto_repeat_rate *)
(* 1, taken up on a stack that reaches the top of the visible rows in every *)
(* column but the first and the last, and played with left and right.       *)
(***************************************************************************)
DasConfigs ==
  {Config(0, 0, 12, 1, 1, 100, 1, None, 2)}

TallCells ==
  [r \in 1 .. TotalRows |-> IF r <= VisibleRows THEN Columns \ {0, BoardWidth - 1} ELSE EmptyRow]

DasInputs == {Pressing({"left"}), Pressing({"right"})}

InitDas ==
  \E config \in DasConfigs, s \in Seeds :
    Holds(WithCells(BattleNew(config, s, s), 1, TallCells))

PlayDas == \E current \in DasInputs : WatchedUpdate(current)

NextDas == PlayDas

SpecDas == InitDas /\ [][NextDas]_vars

(***************************************************************************)
(* SpecGarbage: player 1's game taken up at the end of a line-clear delay, *)
(* with some attack accumulated and some garbage queued, and left alone.   *)
(***************************************************************************)
GarbageConfigs ==
  {Config(1, 0, 1, 0, 1, 100, 1, None, add) : add \in {0, 2, 10}}

\* Game g at the end of a line-clear delay, with attack a and queue q.
AtLineClearEnd(g, a, q) ==
  [g EXCEPT !.state = LineClearDelayState(0), !.attacking = a, !.garbage_queue = q]

InitGarbage ==
  \E config \in GarbageConfigs, s \in Seeds, cells \in StartCells,
     a \in 0 .. MaxAttack, q \in 0 .. MaxQueue :
    LET b == WithCells(BattleNew(config, s, s), 1, cells)
    IN  Holds([b EXCEPT !.game[1] = AtLineClearEnd(@, a, q)])

LeftAlone == PlayerUpdate(NoInput)

NextGarbage == LeftAlone

SpecGarbage == InitGarbage /\ [][NextGarbage]_vars

(***************************************************************************)
(* SpecBattle: a battle of a few ticks in which each player idles or hard  *)
(* drops, with the attack multiplier at 1.0 or raised to 1.5 by tick 1.    *)
(***************************************************************************)
BattleConfigs ==
  {Config(0, 0, 1, 0, 1, 100, 1, margin, 2) : margin \in {None, Some(1)}}

BattleInputs == {NoInput, Pressing({"hard_drop"})}

InitBattle ==
  \E config \in BattleConfigs, s \in Seeds, c1 \in StartCells, c2 \in StartCells :
    Holds(WithCells(WithCells(BattleNew(config, s, s), 1, c1), 2, c2))

BattleTick ==
  /\ time < MaxBattleTicks
  /\ \E p1 \in BattleInputs, p2 \in BattleInputs : BattleUpdate(p1, p2)

NextBattle == BattleTick

SpecBattle == InitBattle /\ [][NextBattle]_vars

(***************************************************************************)
(* SpecRamp: a battle left alone for two ramp periods after margin_time.   *)
(***************************************************************************)
RampConfigs ==
  {Config(0, 0, 1, 0, 1, 100, 1, margin, 2) :
     margin \in {None} \cup {Some(m) : m \in {0, 1, MaxMargin}}}

RampTicks == 2 * RampPeriod + MaxMargin + 1

InitRamp == \E config \in RampConfigs : Holds(BattleNew(config, 0, 0))

RampTick ==
  /\ time < RampTicks
  /\ BattleUpdate(NoInput, NoInput)

NextRamp == RampTick

SpecRamp == InitRamp /\ [][NextRamp]_vars

(***************************************************************************)
(* SpecWire: every Controller is serialized and the byte deserialized.     *)
(***************************************************************************)
WireConfigs == {Config(1, 0, 1, 0, 1, 250, 1, None, 2)}

InitWire == \E config \in WireConfigs : Holds(BattleNew(config, 0, 0))

\* What the steps of the wire format leave alone.
OffTheWire ==
  <<game, rng, time, multiplier2, margin_time, replay, events, held_left,
    fall_watch, window, fired, call, held_since, grounded, beat>>

\* A Controller with any of the 128 button combinations is taken up.
TakeController ==
  /\ wire.stage = "idle"
  /\ \E pressed \in SUBSET Buttons :
       wire' = [wire EXCEPT !.stage = "value", !.controller = Pressing(pressed)]
  /\ UNCHANGED OffTheWire

SerializeStep ==
  /\ wire.stage = "value"
  /\ wire' = [wire EXCEPT !.stage = "byte", !.byte = SerializeController(wire.controller)]
  /\ UNCHANGED OffTheWire

DeserializeStep ==
  /\ wire.stage = "byte"
  /\ wire' = [wire EXCEPT !.stage = "decoded", !.decoded = DeserializeController(wire.byte)]
  /\ UNCHANGED OffTheWire

NextWire == TakeController \/ SerializeStep \/ DeserializeStep

SpecWire == InitWire /\ [][NextWire]_vars

(***************************************************************************)
(* SpecLoop: player 1's game left alone, with the gravity loop of an       *)
(* update taken one iteration at a time.  A loop that has begun goes on,   *)
(* and a call whose loop has exited returns.                               *)
(***************************************************************************)
LoopConfigs ==
  {Config(1, 0, 1, 0, 1, gravity, 1, None, 2) : gravity \in {0, 40, 250}}

InitLoop ==
  \E config \in LoopConfigs, s \in Seeds : Holds(BattleNew(config, s, s))

\* An update that does not come to the gravity branch is taken whole.
UpdateAtOnce ==
  /\ ~call.active /\ ~call.exited
  /\ ~ReachesGravity(game[1], NoInput)
  /\ GameStep(NoInput)
  /\ UNCHANGED <<held_left, watchers>>

\* What the steps of the gravity loop leave alone.
OutsideLoop ==
  <<game, rng, time, multiplier2, margin_time, replay, events, held_left,
    fall_watch, window, fired, wire, held_since, grounded, beat>>

\* An update that comes to the gravity branch is called and enters the loop.
EnterLoop ==
  /\ ~call.active /\ ~call.exited
  /\ ReachesGravity(game[1], NoInput)
  /\ call' = [active |-> TRUE, exited |-> FALSE, current |-> NoInput,
              falling |-> AtLoopEntry(game[1], NoInput)]
  /\ UNCHANGED OutsideLoop

\* Line 282 finds the accumulator negative: the body runs once more.
LoopStep ==
  /\ call.active
  /\ call.falling.gravity < 0
  /\ call' = [call EXCEPT !.falling = GravityBody(@, game[1].board, game[1].config)]
  /\ UNCHANGED OutsideLoop

\* Line 282 finds the accumulator non-negative: the loop exits.
ExitLoop ==
  /\ call.active
  /\ call.falling.gravity >= 0
  /\ call' = [call EXCEPT !.active = FALSE, !.exited = TRUE]
  /\ UNCHANGED OutsideLoop

\* The update runs from the loop's exit to its end and returns.
ReturnFromLoop ==
  /\ call.exited
  /\ GameStep(call.current)
  /\ call' = [active |-> FALSE, exited |-> FALSE, current |-> NoInput, falling |-> NoFalling]
  /\ UNCHANGED <<held_left, fall_watch, window, fired, wire, held_since, grounded, beat>>

NextLoop == UpdateAtOnce \/ EnterLoop \/ LoopStep \/ ExitLoop \/ ReturnFromLoop

SpecLoop ==
  InitLoop /\ [][NextLoop]_vars /\ WF_vars(LoopStep) /\ WF_vars(ExitLoop)

(***************************************************************************)
(* SpecHold: player 1's game played with hold, hard drop and rotation, and *)
(* with hold pressed together with buttons of every other kind.            *)
(***************************************************************************)
HoldConfigs == {Config(1, 0, 1, 0, 1, 250, 1, None, 2)}

HoldInputs ==
  {Pressing(bs) : bs \in {{}, {"hold"}, {"hard_drop"}, {"rotate_right"},
                          {"hold", "hard_drop", "rotate_right", "left", "soft_drop"}}}

InitHold ==
  \E config \in HoldConfigs, s \in Seeds : Holds(BattleNew(config, s, s))

PlayHold == \E current \in HoldInputs : WatchedHold(current)

NextHold == PlayHold

SpecHold == InitHold /\ [][NextHold]_vars

(***************************************************************************)
(* SpecSpawn: player 1's game played with hard drop and rotation under     *)
(* spawn delays of 0, 1 and 3 ticks.                                       *)
(***************************************************************************)
SpawnConfigs == {Config(sd, 0, 1, 0, 1, 250, 2, None, 2) : sd \in {0, 1, 3}}

SpawnInputs == {Pressing(bs) : bs \in {{}, {"hard_drop"}, {"rotate_right"}}}

InitSpawn ==
  \E config \in SpawnConfigs, s \in Seeds, cells \in StartCells :
    Holds(WithCells(BattleNew(config, s, s), 1, cells))

PlaySpawn == \E current \in SpawnInputs : PlayerUpdate(current)

NextSpawn == PlaySpawn

SpecSpawn == InitSpawn /\ [][NextSpawn]_vars

(***************************************************************************)
(* SpecLock: player 1's game played with hard drop and hold over a floor   *)
(* that a domino completes, with some garbage queued, under a line-clear   *)
(* delay of 2 ticks.                                                       *)
(***************************************************************************)
LockConfigs == {Config(1, 2, 1, 0, 1, 250, 1, None, 2)}

LockInputs == {Pressing(bs) : bs \in {{}, {"hard_drop"}, {"hold"}}}

QueuedAtStart == {0, 1, 3}

InitLock ==
  \E config \in LockConfigs, s \in Seeds, cells \in StartCells, q \in QueuedAtStart :
    LET b == WithCells(BattleNew(config, s, s), 1, cells)
    IN  Holds([b EXCEPT !.game[1].garbage_queue = q])

PlayLock == \E current \in LockInputs : PlayerUpdate(current)

NextLock == PlayLock

SpecLock == InitLock /\ [][NextLock]_vars

(***************************************************************************)
(* SpecGround: player 1's game played with rotations and with hold and     *)
(* left pressed together (a left shift whenever the hold does not fire),   *)
(* and otherwise left to gravity and the lock delay.                       *)
(***************************************************************************)
GroundConfigs == {Config(1, 0, 1, 0, 1, 250, 1, None, 2)}

GroundInputs == {Pressing(bs) : bs \in {{}, {"rotate_right"}, {"hold", "left"}}}

InitGround ==
  \E config \in GroundConfigs, s \in Seeds : Holds(BattleNew(config, s, s))

PlayGround == \E current \in GroundInputs : WatchedGround(current)

NextGround == PlayGround

SpecGround == InitGround /\ [][NextGround]_vars

(***************************************************************************)
(* SpecStall: the first piece of player 1's game, played with rotations,   *)
(* shifts, soft drop and hold over an empty playfield, a floor with a gap  *)
(* or a floor with a well, until it has left Falling and the next piece    *)
(* is due.  Updates keep coming for as long as the game is played.         *)
(***************************************************************************)
StallConfigs == {Config(1, 0, 1, 0, 1, grav, 1, None, 2) : grav \in {100, 500}}

StallInputs ==
  {Pressing(bs) : bs \in {{}, {"rotate_right"}, {"rotate_left"}, {"left"},
                          {"soft_drop"}, {"hold"}}}

WellCells == [r \in 1 .. TotalRows |-> IF r = 1 THEN Columns \ {SpawnX} ELSE EmptyRow]

StallCells == StartCells \cup {WellCells}

InitStall ==
  \E config \in StallConfigs, s \in Seeds, cells \in StallCells :
    Holds(WithCells(BattleNew(config, s, s), 1, cells))

\* The first piece is still in play or has only just left it.
FirstPiece ==
  /\ game[1].board.cells \in StallCells
  /\ ~IsSome(game[1].board.hold)

PlayStall ==
  /\ FirstPiece
  /\ \E current \in StallInputs : PlayerUpdate(current)

NextStall == PlayStall

\* Weak fairness of PlayStall, WF_vars(PlayStall), written out: an update
\* with an input other than the last one changes `prev`, so PlayStall can
\* change the state exactly where FirstPiece holds.
UpdatesKeepComing == []<>(~FirstPiece) \/ []<><<PlayStall>>_vars

SpecStall == InitStall /\ [][NextStall]_vars /\ UpdatesKeepComing

(***************************************************************************)
(* SpecFloat: the first piece of player 1's game, played with rotations    *)
(* (one or both in a tick), left shifts and hard drop over an empty        *)
(* playfield, a floor with a gap or a floor with a well, until it is       *)
(* locked.  Updates keep coming for as long as the game is played.  The    *)
(* move counter is kept up to MoveCountCap: the code only compares it with *)
(* 15, adds to it and resets it, so it tells no two values from            *)
(* MoveCountCap on apart.                                                  *)
(***************************************************************************)
\* Game g with the move counter of its falling piece kept up to MoveCountCap.
CappedMoves(g) ==
  [g EXCEPT !.state.falling.rotation_move_count = Min(@, MoveCountCap)]

FloatConfigs == {Config(1, 0, 1, 0, 1, 500, 1, None, 2)}

FloatInputs ==
  {Pressing(bs) : bs \in {{}, {"rotate_right"}, {"rotate_left"},
                          {"rotate_right", "rotate_left"}, {"left"}, {"hard_drop"}}}

InitFloat ==
  \E config \in FloatConfigs, s \in Seeds, cells \in StallCells :
    Holds(WithCells(BattleNew(config, s, s), 1, cells))

PlayFloat ==
  /\ FirstPiece
  /\ \E current \in FloatInputs :
       \E u \in {GameUpdate(game[1], current, rng[1])} :
         /\ game' = [game EXCEPT ![1] = CappedMoves(u.game)]
         /\ rng' = [rng EXCEPT ![1] = u.rng]
         /\ events' = [events EXCEPT ![1] = u.events]
  /\ beat' = 1 - beat
  /\ UNCHANGED <<time, multiplier2, margin_time, replay, held_left>>
  /\ UNCHANGED <<fall_watch, window, fired, wire, call, held_since, grounded>>

\* The next update of the first piece is due: whatever it does to the game,
\* the observer counts it.
Tick ==
  /\ FirstPiece
  /\ beat' = 1 - beat

NextFloat == PlayFloat

\* Battle::update is called on every tick, and calls Game::update: while the
\* first piece is in play its next update is always taken.
SpecFloat == InitFloat /\ [][NextFloat]_vars /\ WF_beat(Tick)

(***************************************************************************)
(* SpecGravity: player 1's game with a slow, a middling and a fast gravity,*)
(* left alone or shifted left while the pieces fall.                       *)
(***************************************************************************)
GravityConfigs ==
  {Config(1, 0, 1, 0, 1, gravity, 1, None, 2) : gravity \in {40, 450, 4500}}

GravityInputs == {NoInput, Pressing({"left"})}

InitGravity ==
  \E config \in GravityConfigs, s \in Seeds : Holds(BattleNew(config, s, s))

PlayGravity == \E current \in GravityInputs : WatchedFall(current)

NextGravity == PlayGravity

SpecGravity == InitGravity /\ [][NextGravity]_vars

(***************************************************************************)
(* SpecDrift: the same games left alone, with the observer's window.       *)
(***************************************************************************)
DriftConfigs ==
  {Config(1, 0, 1, 0, 1, gravity, 1, None, 2) : gravity \in {40, 250, 450, 4500}}

InitDrift ==
  \E config \in DriftConfigs, s \in Seeds : Holds(BattleNew(config, s, s))

PlayDrift == \E restart \in BOOLEAN : WatchedWindow(NoInput, restart)

NextDrift == PlayDrift

SpecDrift == InitDrift /\ [][NextDrift]_vars

(***************************************************************************)
(* SpecPress: player 1's game played with the buttons that do not repeat,  *)
(* hold also kept down while hard drop is pressed and released.            *)
(***************************************************************************)
PressConfigs == {Config(1, 0, 1, 0, 1, 250, 1, None, 2)}

PressInputs ==
  {Pressing(bs) : bs \in {{}, {"hold"}, {"hard_drop"}, {"hold", "hard_drop"},
                          {"rotate_right"}, {"rotate_left"}}}

InitPress ==
  \E config \in PressConfigs, s \in Seeds : Holds(BattleNew(config, s, s))

PlayPress == \E current \in PressInputs : WatchedPress(current)

NextPress == PlayPress

SpecPress == InitPress /\ [][NextPress]_vars

(***************************************************************************)
(* Properties.                                                             *)
(***************************************************************************)
\* The events of type `type` in an event list.
OfType(evs, type) == {i \in 1 .. Len(evs) : evs[i].type = type}

\* C2: GameOver is terminal.  An update of a game that is over leaves it over,
\* leaves its playfield, hold flag, garbage queue and attack accumulator as
\* they were and returns exactly [GameOver], whatever the input.
C2_GameOverTerminal ==
  [][game[1].state.tag = "GameOver" =>
       /\ game'[1].state = GameOverState
       /\ game'[1].board = game[1].board
       /\ game'[1].did_hold = game[1].did_hold
       /\ game'[1].garbage_queue = game[1].garbage_queue
       /\ game'[1].attacking = game[1].attacking
       /\ events'[1] = <<Ev("GameOver")>>]_vars

\* C2's case: a game that is over has been updated with left pressed.
C2_Witness ==
  /\ game[1].state.tag = "GameOver"
  /\ game[1].prev.left
  /\ events[1] = <<Ev("GameOver")>>

\* The falling state after the rotations, shifts and move-reset bookkeeping of
\* an update of g with `current`, where hold does not fire.
AfterMoves(g, current) ==
  LET m == RotateAndShift(InputPhase(g, current))
  IN  MoveReset(m.falling)

\* C9: hard drop locks within the tick.  In an update that starts in Falling
\* with hard drop newly pressed, in which neither hold nor the 15 moves lock
\* rule fires, the piece is dropped as far as it goes and locked: PiecePlaced
\* carries Some(d), d the rows between the piece before the drop and the
\* locked piece, and the update ends in SpawnDelay, LineClearDelay or GameOver.
C9_HardDropLocks ==
  [][(/\ game[1].state.tag = "Falling"
      /\ ~game[1].prev.hard_drop /\ game'[1].prev.hard_drop
      /\ OfType(events'[1], "PieceHeld") = {}
      /\ ~MoveLockDue(AfterMoves(game[1], game'[1].prev), game[1].board))
     => LET before == AfterMoves(game[1], game'[1].prev).piece
        IN  /\ game'[1].state.tag \in {"SpawnDelay", "LineClearDelay", "GameOver"}
            /\ \E i \in OfType(events'[1], "PiecePlaced") :
                 LET e == events'[1][i]
                 IN  /\ e.piece = [before EXCEPT !.y = e.piece.y]
                     /\ OnStack(game[1].board, e.piece)
                     /\ e.dist = Some(before.y - e.piece.y)
                     /\ (game[1].board.cells = EmptyBoard.cells /\ before.y = SpawnY
                           => e.dist = Some(SpawnY))]_vars

\* C9's case: a piece that had fallen below the spawn row was hard-dropped
\* onto the floor row it completes, and the line-clear delay began.
C9_Witness ==
  /\ game[1].state.tag = "LineClearDelay"
  /\ game[1].prev.hard_drop
  /\ \E i \in OfType(events[1], "PiecePlaced") :
       /\ IsSome(events[1][i].dist)
       /\ Unwrap(events[1][i].dist) < SpawnY
       /\ Unwrap(events[1][i].dist) > 0

LeftHeldAndFree ==
  /\ game[1].state.tag = "Falling"
  /\ game'[1].prev.left /\ ~game'[1].prev.right
  /\ game[1].config.delayed_auto_shift = 12
  /\ game[1].config.auto_repeat_rate = 1
  /\ Shift(game[1].board, game[1].state.falling.piece, -1, 0).ok
  /\ (held_left' > 1 => ~game[1].used.left)
  /\ held_left' < HeldCap

\* The update shifted the piece: it returned a PieceMoved (soft drop, the other
\* source of PieceMoved, is never pressed in SpecDas).
ShiftedNow == OfType(events'[1], "PieceMoved") # {}

\* C3: DAS/ARR timing.  With delayed_auto_shift 12 and auto_repeat_rate 1,
\* left pressed and held shifts the piece on the update of the press, on none
\* of the next 12 updates, and on every update after those.
C3_DasTiming ==
  [][LeftHeldAndFree =>
       /\ held_left' = 1 => ShiftedNow
       /\ (held_left' >= 2 /\ held_left' <= 13) => ~ShiftedNow
       /\ held_left' >= 14 => ShiftedNow]_vars

(***************************************************************************)
(* deal_garbage runs in the update that ends a line-clear delay and in an  *)
(* update that locks a piece without clearing a line or topping out.       *)
(***************************************************************************)
QuietLocks == {i \in OfType(events'[1], "PiecePlaced") :
                 events'[1][i].cleared = 0 /\ ~events'[1][i].locked_out}

DealRan ==
  \/ game[1].state.tag = "LineClearDelay" /\ game[1].state.delay = 0
  \/ QuietLocks # {}

\* The playfield deal_garbage found.
CellsAtDeal ==
  IF QuietLocks = {} THEN game[1].board.cells
  ELSE LockPiece(game[1].board, events'[1][CHOOSE i \in QuietLocks : TRUE].piece).board.cells

\* The attack and the queue deal_garbage found, and the queue left by the
\* cancellation.
AttackAtDeal == game[1].attacking
QueueAtDeal == game[1].garbage_queue
Remaining == IF AttackAtDeal > QueueAtDeal THEN 0 ELSE QueueAtDeal - AttackAtDeal

\* C4: garbage cancellation, attack larger.  deal_garbage run with attack a
\* and queue q, a > q, leaves queue and attack 0, emits exactly one
\* GarbageSent, of a - q, and no GarbageAdded, and leaves the playfield alone.
C4_AttackLarger ==
  [][(DealRan /\ AttackAtDeal > QueueAtDeal) =>
       /\ game'[1].garbage_queue = 0
       /\ game'[1].attacking = 0
       /\ Cardinality(OfType(events'[1], "GarbageSent")) = 1
       /\ \A i \in OfType(events'[1], "GarbageSent") :
            events'[1][i].amt = AttackAtDeal - QueueAtDeal
       /\ OfType(events'[1], "GarbageAdded") = {}
       /\ game'[1].board.cells = CellsAtDeal]_vars

\* C4's case: a line-clear delay ended with more attack than queued garbage,
\* and 2 rows were sent on.
C4_Witness ==
  /\ OfType(events[1], "EndOfLineClearDelay") # {}
  /\ \E i \in OfType(events[1], "GarbageSent") : events[1][i].amt = 2
  /\ game[1].garbage_queue = 0
  /\ game[1].attacking = 0

\* C5 as claimed: deal_garbage run with a <= q emits no GarbageSent, zeroes
\* the attack and returns with garbage_queue = q - a.
C5_AsClaimed ==
  [][(DealRan /\ AttackAtDeal <= QueueAtDeal) =>
       /\ OfType(events'[1], "GarbageSent") = {}
       /\ game'[1].attacking = 0
       /\ game'[1].garbage_queue = QueueAtDeal - AttackAtDeal]_vars

\* C5, amended: garbage cancellation, incoming larger or equal.  deal_garbage
\* run with a <= q emits no GarbageSent and zeroes the attack; the
\* cancellation leaves q - a rows queued, of which min(q - a, max_garbage_add)
\* are injected before deal_garbage returns, so that it returns with
\* garbage_queue = (q - a) - min(q - a, max_garbage_add).
C5_IncomingLarger ==
  [][(DealRan /\ AttackAtDeal <= QueueAtDeal) =>
       /\ OfType(events'[1], "GarbageSent") = {}
       /\ game'[1].attacking = 0
       /\ game'[1].garbage_queue =
            (QueueAtDeal - AttackAtDeal)
              - Min(QueueAtDeal - AttackAtDeal, game[1].config.max_garbage_add)]_vars

\* C5's case: a line-clear delay ended with queued garbage left over by the
\* cancellation; 2 rows of it were injected and 3 stay queued.
C5_Witness ==
  /\ OfType(events[1], "EndOfLineClearDelay") # {}
  /\ \E i \in OfType(events[1], "GarbageAdded") : Len(events[1][i].cols) = 2
  /\ game[1].garbage_queue = 3
  /\ game[1].attacking = 0

\* Whether pushing n rows in at the floor of `cells` reports a death: some
\* push finds the top row occupied.
PushKills(cells, n) ==
  \/ n > TotalRows
  \/ \E r \in 1 .. TotalRows : r > TotalRows - n /\ cells[r] # EmptyRow

\* C6: garbage injection.  When r > 0 rows stay queued after the cancellation,
\* deal_garbage injects n = min(r, max_garbage_add) rows, takes n off the
\* queue and emits exactly one GarbageAdded and no GarbageSent; the event
\* lists n columns, each in 0..9, and the rows of the playfield are, from the
\* floor up, the rows of the columns listed last to first and then the rows
\* that were there; the game is over after it iff a push reported a death.
C6_Injection ==
  [][(DealRan /\ Remaining > 0) =>
       LET n == Min(Remaining, game[1].config.max_garbage_add)
       IN  /\ game'[1].garbage_queue = Remaining - n
           /\ Cardinality(OfType(events'[1], "GarbageAdded")) = 1
           /\ OfType(events'[1], "GarbageSent") = {}
           /\ \A i \in OfType(events'[1], "GarbageAdded") :
                LET cols == events'[1][i].cols
                IN  /\ Len(cols) = n
                    /\ \A k \in 1 .. n : cols[k] \in 0 .. 9
                    /\ \A r \in 1 .. TotalRows :
                         game'[1].board.cells[r] =
                           IF r <= n THEN Columns \ {cols[n + 1 - r] % BoardWidth}
                                     ELSE CellsAtDeal[r - n]
           /\ (game'[1].state.tag = "GameOver") = PushKills(CellsAtDeal, n)
           /\ (game'[1].state.tag # "GameOver"
                 => game'[1].state = SpawnDelayState(game[1].config.spawn_delay))]_vars

\* C6's case: with max_garbage_add = 10, ten queued rows were injected at
\* once, their columns were listed, and the game ended.
C6_Witness ==
  /\ game[1].config.max_garbage_add = 10
  /\ game[1].garbage_queue = 0
  /\ game[1].state.tag = "GameOver"
  /\ \E i \in OfType(events[1], "GarbageAdded") :
       /\ Len(events[1][i].cols) = 10
       /\ \E j, k \in 1 .. 10 : events[1][i].cols[j] # events[1][i].cols[k]

(***************************************************************************)
(* Battle::update.                                                         *)
(***************************************************************************)
\* The controllers the last update was given.
LastInputs == replay'[Len(replay')]

\* Player i's update of this tick, taken on its own.
Alone(i) == GameUpdate(game[i], LastInputs[i], rng[i])

\* amt times the multiplier, truncated: the largest integer k <= amt * m2 / 2.
Truncated(amt, m2) == CHOOSE k \in 0 .. amt * m2 : 2 * k <= amt * m2 /\ amt * m2 < 2 * k + 2

\* What the GarbageSent events of evs come to under multiplier m2 / 2.
RECURSIVE SentTotal(_, _, _)
SentTotal(evs, sent, m2) ==
  IF sent = {} THEN 0
  ELSE LET i == CHOOSE j \in sent : TRUE
       IN  Truncated(evs[i].amt, m2) + SentTotal(evs, sent \ {i}, m2)

\* The tick with player 2 updated and routed first.
Player2First ==
  LET b1 == UpdatePlayer(BeforeUpdates(game, rng), 2, LastInputs[2])
      b2 == UpdatePlayer(b1, 1, LastInputs[1])
      b3 == RouteGarbage(b2, 2, 1, multiplier2')
  IN  RouteGarbage(b3, 1, 2, multiplier2')

\* C7: same-tick garbage independence.  A tick leaves each player with the
\* events and the game of its own update taken alone, except that its
\* garbage_queue has grown by what the other player's events of this tick
\* sent, each amount times the multiplier and truncated; so no deal_garbage of
\* the tick saw garbage of the tick, and updating player 2 first gives the
\* same events, queues and games.
C7_SameTickIndependence ==
  [][time' = time + 1 =>
       LET alone == <<Alone(1), Alone(2)>>
           swapped == Player2First
       IN  /\ \A i \in {1, 2} :
                /\ events'[i] = alone[i].events
                /\ game'[i] =
                     [alone[i].game EXCEPT !.garbage_queue =
                        @ + SentTotal(events'[3 - i], OfType(events'[3 - i], "GarbageSent"),
                                      multiplier2')]
           /\ game' = swapped.game
           /\ events' = swapped.events
           /\ rng' = swapped.rng]_vars

\* C7's case: both players sent garbage in the same tick under multiplier 1.5,
\* and each has the other's 1.5 rows, truncated to 1, queued.
C7_Witness ==
  /\ multiplier2 = 3
  /\ \A i \in {1, 2} :
       /\ \E k \in OfType(events[i], "GarbageSent") : events[i][k].amt = 1
       /\ game[i].garbage_queue = 1

\* The multiplier, doubled, after tick t of a battle with margin_time m.
Schedule2(t, m) ==
  IF ~IsSome(m) \/ t < Unwrap(m) \/ t = 0 THEN 2
  ELSE IF Unwrap(m) = 0 THEN 2 + (t \div RampPeriod)
  ELSE 3 + ((t - Unwrap(m)) \div RampPeriod)

\* C8: attack multiplier schedule.  The counter grows by 1 per update; the
\* multiplier starts at 1.0 and never decreases; it is 1.0 throughout when
\* margin_time is None and on every tick before margin_time; from the tick
\* the counter reaches margin_time on it grows by 0.5 once per 1800 ticks.
C8_MultiplierSchedule ==
  /\ [](multiplier2 = Schedule2(time, margin_time))
  /\ [][/\ time' = time + 1
        /\ multiplier2' >= multiplier2
        /\ multiplier2' - multiplier2 <= 1]_vars

\* C8's case: a battle with margin_time 3 has run its second ramp period out
\* and the multiplier has reached 2.0.
C8_Witness ==
  /\ margin_time = Some(MaxMargin)
  /\ time = MaxMargin + RampPeriod
  /\ multiplier2 = 4

(***************************************************************************)
(* Gravity.                                                                *)
(***************************************************************************)
\* C11 as claimed, for gravity = 450: a fall of one cell comes roughly every
\* 22 updates of the gravity branch (within 4 of 22).
C11_AsClaimed ==
  (game[1].config.gravity = 450 /\ fall_watch.gap > 0)
    => (fall_watch.gap >= 18 /\ fall_watch.gap <= 26)

\* C11, amended: gravity rate.  config.gravity is the hundredths of a tick a
\* piece takes to fall one cell: with gravity = 450 an airborne piece that is
\* not soft-dropped falls one cell every 4 or 5 updates, with gravity = 4500
\* one cell every 45 or 46 updates, and with neither does it fall more than
\* one cell in one update; only a gravity below 100 makes it fall more
\* than one cell in one update.
C11_GravityRate ==
  /\ fall_watch.cells >= 0
  /\ fall_watch.cells > 1 => game[1].config.gravity < GravityUnit
  /\ (game[1].config.gravity = 450 /\ fall_watch.gap > 0) => fall_watch.gap \in {4, 5}
  /\ (game[1].config.gravity = 4500 /\ fall_watch.gap > 0) => fall_watch.gap \in {45, 46}

\* C11's case: with gravity = 450 the piece has just fallen its second cell,
\* 5 updates after the first.
C11_Witness ==
  /\ game[1].config.gravity = 450
  /\ game[1].state.tag = "Falling"
  /\ game[1].state.falling.piece.y = SpawnY - 2
  /\ fall_watch.gap = 5
  /\ fall_watch.cells = 1

\* C12: the gravity accumulator never drifts.  With config.gravity > 0 the
\* accumulator of a falling piece is between 0 and config.gravity after every
\* update, and over every window of k updates in a row that took the gravity
\* branch without a soft drop, the gravity loop ran n times with
\* |n - 100 * k / config.gravity| <= 1.
C12_NoDrift ==
  LET g == game[1].config.gravity
      n == window.steps
      k == window.ticks
  IN  /\ game[1].state.tag = "Falling" =>
           (game[1].state.falling.gravity >= 0 /\ game[1].state.falling.gravity <= g)
      /\ n * g - GravityUnit * k <= g
      /\ GravityUnit * k - n * g <= g

\* C12's case: with gravity = 250 a window of 6 updates saw 2 steps, and the
\* accumulator carries 150 on.
C12_Witness ==
  /\ game[1].config.gravity = 250
  /\ game[1].state.tag = "Falling"
  /\ game[1].state.falling.gravity = 150
  /\ window.ticks = 6
  /\ window.steps = 2

(***************************************************************************)
(* The buttons that do not repeat.                                         *)
(***************************************************************************)
\* C13: edge-triggering of the non-repeating buttons.  A press of
\* rotate_right, rotate_left, hold or hard_drop that has gone on since the
\* update before and has had its action does not have it again, however many
\* updates and pieces it spans.
C13_OncePerPress ==
  [][\A b \in EdgeButtons :
       (game[1].prev[b] /\ GivenNow[b] /\ fired[b]) => ~ActsNow(b)]_vars

(***************************************************************************)
(* The wire format of Controller.                                          *)
(***************************************************************************)
\* C14: Controller wire format round trip.  A serialized Controller is one
\* byte with bit 0 clear and bits 1..7 equal to left, right, rotate_left,
\* rotate_right, hold, soft_drop and hard_drop, and deserializing that byte
\* gives a Controller equal to the original.
C14_WireRoundTrip ==
  /\ wire.stage \in {"byte", "decoded"} =>
       LET order == <<"left", "right", "rotate_left", "rotate_right", "hold",
                      "soft_drop", "hard_drop">>
       IN  /\ wire.byte \in 0 .. 255
           /\ wire.byte % 2 = 0
           /\ \A k \in 1 .. 7 : (Bit(wire.byte, k) = 1) = wire.controller[order[k]]
  /\ wire.stage = "decoded" => wire.decoded = wire.controller

\* C14's case: the Controller with rotate_left, hold and hard_drop held has
\* gone through byte 168 and come back.
C14_Witness ==
  /\ wire.stage = "decoded"
  /\ wire.controller = Pressing({"rotate_left", "hold", "hard_drop"})
  /\ wire.byte = 168
  /\ wire.decoded.rotate_left /\ ~wire.decoded.rotate_right

(***************************************************************************)
(* Termination of an update.                                               *)
(***************************************************************************)
\* C15: every tick is bounded.  A call of Game::update that has entered the
\* gravity loop leaves the loop, after which the update runs to its end.
C15_UpdateReturns == call.active ~> call.exited

(***************************************************************************)
(* Hold.                                                                   *)
(***************************************************************************)
\* C16: hold.  An update holds exactly when it finds the game Falling with
\* the hold input used and no hold since the last lock, so that at most one
\* PieceHeld falls between two locks; an update that holds does nothing
\* else (the playfield, the other `used` flags and the piece that came out
\* are untouched by rotation, shift, hard drop, gravity and lock delay) and
\* returns [PieceHeld, PieceFalling] with the piece from the hold slot fresh
\* on its spawn place, [PieceHeld, GameOver] when that piece cannot spawn, or
\* [PieceHeld] with state SpawnDelay(spawn_delay) when the slot was empty.
C16_Hold ==
  [][LET g == InputPhase(game[1], GivenNow)
         slot == game[1].board.hold
         kind == game[1].state.falling.piece.kind
         f == game'[1].state.falling
     IN  /\ Returned("PieceHeld") =
              (game[1].state.tag = "Falling" /\ g.used.hold /\ held_since = 0)
         /\ held_since' <= 1
         /\ Returned("PieceHeld") =>
              /\ events'[1][1] = EvPieceHeld(kind)
              /\ game'[1].board.hold = Some(kind)
              /\ game'[1].board.cells = game[1].board.cells
              /\ game'[1].used = g.used
              /\ IF ~IsSome(slot)
                   THEN /\ Types(events'[1]) = <<"PieceHeld">>
                        /\ game'[1].state = SpawnDelayState(game[1].config.spawn_delay)
                   ELSE \/ /\ Types(events'[1]) = <<"PieceHeld", "GameOver">>
                           /\ game'[1].state = GameOverState
                           /\ ~IsSome(Spawn(Unwrap(slot), game[1].board))
                        \/ /\ Types(events'[1]) = <<"PieceHeld", "PieceFalling">>
                           /\ game'[1].state.tag = "Falling"
                           /\ events'[1][2].piece = f.piece
                           /\ f.piece = [NoPiece EXCEPT !.kind = Unwrap(slot),
                                                        !.x = SpawnX, !.y = SpawnY]
                           /\ f.rotation_move_count = 0
                           /\ f.lock_delay = LockDelay
                           /\ f.gravity = game[1].config.gravity
                           /\ f.soft_drop_delay = 0]_vars

\* C16's case: hold fired in an update that was also given hard drop,
\* rotation, shift and soft drop, and returned the piece from the hold slot.
C16_Witness ==
  /\ game[1].prev.hold /\ game[1].prev.hard_drop /\ game[1].prev.rotate_right
  /\ Types(events[1]) = <<"PieceHeld", "PieceFalling">>
  /\ game[1].state.tag = "Falling"
  /\ game[1].used.hard_drop /\ game[1].used.rotate_right
  /\ held_since = 1

(***************************************************************************)
(* Spawn delay.                                                            *)
(***************************************************************************)
\* C17 as claimed: the update that finds SpawnDelay(1) would take the counter
\* to 0, so it is the one that attempts the spawn and ends in Falling or
\* GameOver.
C17_AsClaimed ==
  [][(game[1].state.tag = "SpawnDelay" /\ game[1].state.delay = 1)
       => game'[1].state.tag \in {"Falling", "GameOver"}]_vars

\* C17: spawn-delay timing.  An update that finds SpawnDelay(n) with n >= 1
\* only decrements the counter, down to SpawnDelay(0), and returns
\* SpawnDelayStart when n is the configured spawn delay and nothing
\* otherwise; the update that finds SpawnDelay(0), the (n+1)-th after
\* SpawnDelay(n) was entered, pops the next piece, refills the queue with one
\* generated piece and attempts the spawn, ending in Falling or GameOver with
\* the queue as long as before.
C17_SpawnTiming ==
  [][LET st == game[1].state
         board == game[1].board
     IN  st.tag = "SpawnDelay" =>
           IF st.delay >= 1
             THEN /\ game'[1].state = SpawnDelayState(st.delay - 1)
                  /\ game'[1].board = board
                  /\ rng'[1] = rng[1]
                  /\ Types(events'[1]) =
                       (IF st.delay = game[1].config.spawn_delay
                          THEN <<"SpawnDelayStart">> ELSE <<>>)
             ELSE /\ Len(game'[1].board.next) = Len(board.next)
                  /\ SubSeq(game'[1].board.next, 1, Len(board.next) - 1) =
                       Tail(board.next)
                  /\ game'[1].board.cells = board.cells
                  /\ \/ /\ game'[1].state = GameOverState
                        /\ Types(events'[1]) = <<"GameOver">>
                     \/ /\ game'[1].state.tag = "Falling"
                        /\ game'[1].state.falling.piece.kind = Head(board.next)
                        /\ Types(events'[1]) = <<"PieceSpawned", "PieceFalling">>
                        /\ events'[1][1].kind =
                             game'[1].board.next[Len(board.next)]]_vars

\* C17's case: after a spawn delay of 3 ticks the spawn has been attempted and
\* the piece is falling.
C17_Witness ==
  /\ game[1].config.spawn_delay = 3
  /\ Types(events[1]) = <<"PieceSpawned", "PieceFalling">>
  /\ game[1].state.tag = "Falling"
  /\ Len(game[1].board.next) = game[1].config.next_queue_size

(***************************************************************************)
(* Lock outcome and deferred garbage.                                      *)
(***************************************************************************)
\* The position of the first event of the given type among the events the
\* update being taken returned to player 1 (0 when there is none).
PositionOf(type) ==
  LET at == {i \in 1 .. Len(events'[1]) : events'[1][i].type = type}
  IN  IF at = {} THEN 0 ELSE CHOOSE i \in at : \A j \in at : i <= j

\* The events the update being taken returned after position i.
EventsAfter(i) == SubSeq(events'[1], i + 1, Len(events'[1]))

\* The update being taken ran deal_garbage on attack a and queue q, and
\* `rest` is what it added to the events: the two are cancelled; what is
\* left of the queue is pushed onto the playfield, max_garbage_add rows at
\* most, and may end the game; what is left of the attack is sent.
DealtNow(a, q, rest) ==
  LET add == game[1].config.max_garbage_add
  IN  /\ game'[1].attacking = 0
      /\ IF q > a
           THEN /\ Types(rest) \in {<<"GarbageAdded">>, <<"GarbageAdded", "GameOver">>}
                /\ Len(rest[1].cols) = Min(q - a, add)
                /\ game'[1].garbage_queue = (q - a) - Min(q - a, add)
                /\ game'[1].state =
                     (IF Len(rest) = 2 THEN GameOverState
                      ELSE SpawnDelayState(game[1].config.spawn_delay))
           ELSE /\ Types(rest) = (IF a > q THEN <<"GarbageSent">> ELSE <<>>)
                /\ a > q => rest[1].amt = a - q
                /\ game'[1].garbage_queue = 0
                /\ game'[1].state = SpawnDelayState(game[1].config.spawn_delay)

\* C18: lock outcome and deferred garbage.  An update that takes the game
\* out of Falling without a hold has locked the piece and returns
\* PiecePlaced; a lock clears the hold flag; a locked-out lock gives
\* GameOver; a lock that clears nothing gives SpawnDelay(spawn_delay) and
\* deals garbage in the same update; a lock that clears lines adds its
\* garbage_sent to the attack, gives LineClearDelay(line_clear_delay) and
\* returns nothing after PiecePlaced; the line-clear delay counts down in
\* silence, and the update that finds it at 0 returns EndOfLineClearDelay
\* first and deals garbage.
C18_LockOutcome ==
  [][LET st == game[1].state
         i == PositionOf("PiecePlaced")
         placed == events'[1][i]
     IN  /\ (st.tag = "Falling" /\ game'[1].state.tag # "Falling"
               /\ ~Returned("PieceHeld")) => i > 0
         /\ i > 0 =>
              /\ st.tag = "Falling"
              /\ ~game'[1].did_hold
              /\ IF placed.locked_out
                   THEN /\ game'[1].state = GameOverState
                        /\ Types(EventsAfter(i)) = <<"GameOver">>
                        /\ game'[1].attacking = game[1].attacking
                        /\ game'[1].garbage_queue = game[1].garbage_queue
                 ELSE IF placed.cleared = 0
                   THEN DealtNow(game[1].attacking, game[1].garbage_queue, EventsAfter(i))
                 ELSE /\ game'[1].attacking = game[1].attacking + placed.garbage_sent
                      /\ game'[1].garbage_queue = game[1].garbage_queue
                      /\ game'[1].state =
                           LineClearDelayState(game[1].config.line_clear_delay)
                      /\ EventsAfter(i) = <<>>
         /\ (st.tag = "LineClearDelay" /\ st.delay >= 1) =>
              /\ game'[1].state = LineClearDelayState(st.delay - 1)
              /\ events'[1] = <<>>
              /\ game'[1].attacking = game[1].attacking
              /\ game'[1].garbage_queue = game[1].garbage_queue
         /\ (st.tag = "LineClearDelay" /\ st.delay = 0) =>
              /\ Len(events'[1]) >= 1
              /\ events'[1][1].type = "EndOfLineClearDelay"
              /\ DealtNow(game[1].attacking, game[1].garbage_queue, EventsAfter(1))]_vars

\* C18's case: a line-clear delay of 2 ticks has expired and the attack of
\* the lock that started it is sent only now.
C18_Witness ==
  /\ game[1].config.line_clear_delay = 2
  /\ Types(events[1]) = <<"EndOfLineClearDelay", "GarbageSent">>
  /\ events[1][2].amt = 1
  /\ game[1].state = SpawnDelayState(game[1].config.spawn_delay)
  /\ game[1].attacking = 0

(***************************************************************************)
(* Lock delay.                                                             *)
(***************************************************************************)
\* C19: lock delay.  While the game is Falling the countdown is between 1
\* and 30 after every update, and is 30 less the number of updates in a row
\* that the piece has rested on the stack since its last successful move;
\* it is 30 after a spawn, after a hold that brings a piece out, and after
\* an update that finds the piece airborne once its moves are done; an
\* update that finds the piece on the stack takes 1 from the countdown,
\* which a successful rotation or shift of that update first sets to 30,
\* and locks the piece exactly when that reaches 0, the 30th update in a
\* row on the stack without a successful move.
C19_LockDelay ==
  [][LET g == InputPhase(game[1], GivenNow)
         before == game[1].state.falling.lock_delay
         after == game'[1].state.falling.lock_delay
         start == IF MoveSucceeds(game[1], GivenNow) THEN LockDelay ELSE before
         falls == game'[1].state.tag = "Falling"
     IN  /\ falls => (after >= 1 /\ after <= LockDelay /\ after = LockDelay - grounded')
         /\ (falls /\ game[1].state.tag # "Falling") => after = LockDelay
         /\ (falls /\ Returned("PieceHeld")) => after = LockDelay
         /\ ReachesGravity(game[1], GivenNow) => (falls /\ after = LockDelay)
         /\ ReachesLockDelay(game[1], GivenNow) =>
              /\ falls => after = start - 1
              /\ Returned("PiecePlaced") = (start - 1 = 0)
              /\ Returned("PiecePlaced") = (grounded' = LockDelay)
              /\ Returned("PiecePlaced") = ~falls]_vars

\* C19's case: a piece has just locked by the countdown, on its 30th update
\* in a row on the stack.
C19_Witness ==
  /\ grounded = LockDelay
  /\ events[1] # <<>>
  /\ events[1][1].type = "PiecePlaced"
  /\ events[1][1].dist = None
  /\ game[1].state.tag = "SpawnDelay"

(***************************************************************************)
(* No infinite stalling.                                                   *)
(***************************************************************************)
\* The last update took the falling piece out of play by a hold.
SwappedOut == \E i \in 1 .. Len(events[1]) : events[1][i].type = "PieceHeld"

\* C20: no infinite stalling.  With gravity > 0 and updates that keep
\* coming, whatever their inputs, a game that is Falling comes to a state
\* that is not Falling (the piece is locked or the game is over) or to one
\* in which a hold has just swapped the piece out.
C20_NoStalling == (game[1].state.tag = "Falling") ~> (game[1].state.tag # "Falling" \/ SwappedOut)

\* C20's case: a piece kept up by rotations has been locked by the 15 moves
\* rule, in the update of its last rotation.
C20_Witness ==
  /\ Types(events[1]) = <<"PieceRotated", "PiecePlaced">>
  /\ events[1][2].dist = None
  /\ game[1].state.tag # "Falling"
  /\ game[1].config.gravity > 0

(***************************************************************************)
(* Locked pieces.                                                          *)
(***************************************************************************)
\* C21: every locked piece is grounded.  The piece of every PiecePlaced an
\* update returns rests on the stack of the playfield it is locked into: it
\* cannot move one cell down.
C21_LockedGrounded ==
  [][\A i \in OfType(events'[1], "PiecePlaced") :
       OnStack(game[1].board, events'[1][i].piece)]_vars

====
